---- MODULE Spec2Model ----
(***************************************************************************)
(* Model of the traceroute API route (src/routes/api/+server.ts): the hop  *)
(* parser, the hostname heuristic (city pass, airport-token pass), the     *)
(* address resolver with its SQLite cache table `ips`, and the two         *)
(* geolocation providers with rate-limit retry.                            *)
(*                                                                         *)
(* JavaScript runs one synchronous segment at a time; every `await` is a   *)
(* point where another request's segment may run.  Each action below is    *)
(* one such segment.                                                       *)
(***************************************************************************)
EXTENDS Integers, Sequences, FiniteSets, TLC

(***************************************************************************)
(* Bounds of the model.                                                    *)
(***************************************************************************)
\* longest trace (number of stdout lines) handed to parseOutput
MaxLines == 3
\* longest hostname, in fragments, given to the heuristic on its own
MaxFrags == 2

(***************************************************************************)
(* JavaScript values.  Every value is a record of the same shape so that   *)
(* any two of them can be compared: t is the typeof-like tag, n and e give *)
(* a number n * 10^e (e <= 0, no trailing zero in the fraction), s is the  *)
(* text of a string, or "NaN" for the number NaN.                          *)
(***************************************************************************)
JSNum(n) == [t |-> "number", n |-> n, e |-> 0, s |-> ""]
JSDec(n, e) == [t |-> "number", n |-> n, e |-> e, s |-> ""]
JSNaN == [t |-> "number", n |-> 0, e |-> 0, s |-> "NaN"]
JSStr(s) == [t |-> "string", n |-> 0, e |-> 0, s |-> s]
JSNull == [t |-> "null", n |-> 0, e |-> 0, s |-> ""]
JSUndefined == [t |-> "undefined", n |-> 0, e |-> 0, s |-> ""]
JSTrue == [t |-> "boolean", n |-> 1, e |-> 0, s |-> ""]
JSFalse == [t |-> "boolean", n |-> 0, e |-> 0, s |-> ""]

IsNaN(v) == v.t = "number" /\ v.s = "NaN"
IsFinite(v) == v.t = "number" /\ v.s = ""

\* JavaScript truthiness (ToBoolean) of a value
Truthy(v) ==
    CASE v.t = "number" -> ~IsNaN(v) /\ v.n # 0
      [] v.t = "string" -> v.s # ""
      [] v.t = "boolean" -> v.n = 1
      [] OTHER -> FALSE

(***************************************************************************)
(* Strings.  A string is a TLA+ string; Head, Tail, Len, SubSeq and \o     *)
(* work on it character by character.                                      *)
(***************************************************************************)
DigitVal == ("0" :> 0) @@ ("1" :> 1) @@ ("2" :> 2) @@ ("3" :> 3) @@ ("4" :> 4)
            @@ ("5" :> 5) @@ ("6" :> 6) @@ ("7" :> 7) @@ ("8" :> 8) @@ ("9" :> 9)

LowerOf == ("A" :> "a") @@ ("B" :> "b") @@ ("C" :> "c") @@ ("D" :> "d")
           @@ ("E" :> "e") @@ ("F" :> "f") @@ ("G" :> "g") @@ ("H" :> "h")
           @@ ("I" :> "i") @@ ("J" :> "j") @@ ("K" :> "k") @@ ("L" :> "l")
           @@ ("M" :> "m") @@ ("N" :> "n") @@ ("O" :> "o") @@ ("P" :> "p")
           @@ ("Q" :> "q") @@ ("R" :> "r") @@ ("S" :> "s") @@ ("T" :> "t")
           @@ ("U" :> "u") @@ ("V" :> "v") @@ ("W" :> "w") @@ ("X" :> "x")
           @@ ("Y" :> "y") @@ ("Z" :> "z")

LowerLetters == {LowerOf[c] : c \in DOMAIN LowerOf}

UpperOf == [c \in LowerLetters |-> CHOOSE u \in DOMAIN LowerOf : LowerOf[u] = c]

RECURSIVE toLowerCase(_)
toLowerCase(s) ==
    IF s = "" THEN ""
    ELSE (IF Head(s) \in DOMAIN LowerOf THEN LowerOf[Head(s)] ELSE Head(s))
         \o toLowerCase(Tail(s))

RECURSIVE toUpperCase(_)
toUpperCase(s) ==
    IF s = "" THEN ""
    ELSE (IF Head(s) \in DOMAIN UpperOf THEN UpperOf[Head(s)] ELSE Head(s))
         \o toUpperCase(Tail(s))

\* String.prototype.includes
includes(s, sub) ==
    \E i \in 1..(Len(s) - Len(sub) + 1) : SubSeq(s, i, i + Len(sub) - 1) = sub

\* String.prototype.trim, for the one whitespace character of the model
RECURSIVE trimStart(_)
trimStart(s) == IF s # "" /\ Head(s) = " " THEN trimStart(Tail(s)) ELSE s

RECURSIVE trimEnd(_)
trimEnd(s) ==
    IF s # "" /\ SubSeq(s, Len(s), Len(s)) = " "
    THEN trimEnd(SubSeq(s, 1, Len(s) - 1)) ELSE s

trim(s) == trimEnd(trimStart(s))

\* String.prototype.replace(pat, "") with a one-character string pattern:
\* removes the first occurrence only
RECURSIVE replaceFirst(_, _)
replaceFirst(s, c) ==
    IF s = "" THEN ""
    ELSE IF Head(s) = c THEN Tail(s)
    ELSE Head(s) \o replaceFirst(Tail(s), c)

\* String.prototype.split with a one-character separator
RECURSIVE splitAcc(_, _, _)
splitAcc(s, c, cur) ==
    IF s = "" THEN <<cur>>
    ELSE IF Head(s) = c THEN <<cur>> \o splitAcc(Tail(s), c, "")
    ELSE splitAcc(Tail(s), c, cur \o Head(s))

split(s, c) == splitAcc(s, c, "")

\* line.match(/\S+/g) || []  : the maximal runs of non-blank characters
RECURSIVE tokensAcc(_, _)
tokensAcc(s, cur) ==
    IF s = "" THEN (IF cur = "" THEN <<>> ELSE <<cur>>)
    ELSE IF Head(s) = " "
         THEN (IF cur = "" THEN <<>> ELSE <<cur>>) \o tokensAcc(Tail(s), "")
    ELSE tokensAcc(Tail(s), cur \o Head(s))

matchNonBlank(line) == tokensAcc(line, "")

(***************************************************************************)
(* Number(string), for the strings of the model: an optional sign, digits, *)
(* an optional fraction.  The empty string is 0; anything else is NaN.     *)
(***************************************************************************)
RECURSIVE allDigits(_)
allDigits(s) == s = "" \/ (Head(s) \in DOMAIN DigitVal /\ allDigits(Tail(s)))

RECURSIVE decValue(_, _)
decValue(s, acc) ==
    IF s = "" THEN acc ELSE decValue(Tail(s), acc * 10 + DigitVal[Head(s)])

RECURSIVE stripZeros(_)
stripZeros(s) ==
    IF s # "" /\ SubSeq(s, Len(s), Len(s)) = "0"
    THEN stripZeros(SubSeq(s, 1, Len(s) - 1)) ELSE s

unsignedNumber(s) ==
    LET ps == split(s, ".") IN
    IF Len(ps) = 1 /\ s # "" /\ allDigits(s) THEN JSNum(decValue(s, 0))
    ELSE IF Len(ps) = 2 /\ allDigits(ps[1]) /\ allDigits(ps[2])
            /\ (ps[1] # "" \/ ps[2] # "")
    THEN LET f == stripZeros(ps[2])
         IN  JSDec(decValue(ps[1] \o f, 0), 0 - Len(f))
    ELSE JSNaN

Number(str) ==
    LET s == trim(str) IN
    IF s = "" THEN JSNum(0)
    ELSE IF Head(s) = "-"
    THEN LET u == unsignedNumber(Tail(s))
         IN  IF IsNaN(u) THEN JSNaN ELSE JSDec(0 - u.n, u.e)
    ELSE IF Head(s) = "+" THEN unsignedNumber(Tail(s))
    ELSE unsignedNumber(s)

\* Number(value) for a value that need not be a string
ToNumber(v) ==
    CASE v.t = "number" -> v
      [] v.t = "string" -> Number(v.s)
      [] v.t = "boolean" -> JSNum(v.n)
      [] v.t = "null" -> JSNum(0)
      [] OTHER -> JSNaN

RECURSIVE Pow10(_)
Pow10(k) == IF k <= 0 THEN 1 ELSE 10 * Pow10(k - 1)

\* a < b on JavaScript numbers: false as soon as one of them is NaN
JSLess(a, b) ==
    /\ IsFinite(a)
    /\ IsFinite(b)
    /\ a.n * Pow10(0 - b.e) < b.n * Pow10(0 - a.e)

JSGreater(a, b) == JSLess(b, a)

(***************************************************************************)
(* isPrivateIP                                                             *)
(***************************************************************************)
\* isPrivateIP with the upper end of 172.16.0.0/12 left out (parts[1] < 31)
isPrivateIPNarrow(ip) ==
    LET strs == split(ip, ".")
        parts == [k \in 1..Len(strs) |-> Number(strs[k])]
    IN  IF \/ Len(parts) # 4
           \/ \E k \in 1..Len(parts) :
                \/ IsNaN(parts[k])
                \/ JSLess(parts[k], JSNum(0))
                \/ JSGreater(parts[k], JSNum(255))
        THEN FALSE
        ELSE \/ parts[1] = JSNum(10)
             \/ /\ parts[1] = JSNum(172)
                /\ ~JSLess(parts[2], JSNum(16))
                /\ JSLess(parts[2], JSNum(31))
             \/ parts[1] = JSNum(192) /\ parts[2] = JSNum(168)
             \/ parts[1] = JSNum(127)
             \/ parts[1] = JSNum(169) /\ parts[2] = JSNum(254)

isPrivateIP(ip) ==
    LET strs == split(ip, ".")
        parts == [k \in 1..Len(strs) |-> Number(strs[k])]
    IN  IF \/ Len(parts) # 4
           \/ \E k \in 1..Len(parts) :
                \/ IsNaN(parts[k])
                \/ JSLess(parts[k], JSNum(0))
                \/ JSGreater(parts[k], JSNum(255))
        THEN FALSE
        ELSE \/ parts[1] = JSNum(10)
             \/ /\ parts[1] = JSNum(172)
                /\ ~JSLess(parts[2], JSNum(16))
                /\ ~JSGreater(parts[2], JSNum(31))
             \/ parts[1] = JSNum(192) /\ parts[2] = JSNum(168)
             \/ parts[1] = JSNum(127)
             \/ parts[1] = JSNum(169) /\ parts[2] = JSNum(254)

(***************************************************************************)
(* Reference tables.  worldcities.json and airports.json are data files;   *)
(* the model loads a small directory with the cases the code's conditions *)
(* tell apart: names of 5 and of 6 letters, populations on both            *)
(* sides of the two floors, a name carried by several cities, airports     *)
(* without URL, without ICAO, and with a city missing from the directory.  *)
(***************************************************************************)
City(name, lat, lng, population) ==
    [city |-> name, city_ascii |-> name, lat |-> lat, lng |-> lng,
     population |-> population]

rawCityData ==
    << City("London", "42.9836", "-81.2497", "383822"),
       City("London", "51.5072", "-0.1275", "11262000"),
       City("Stockholm", "59.3294", "18.0686", "1611776"),
       City("Linden", "40.6251", "-74.2381", "4300"),
       City("Kiruna", "67.85", "20.2166", "17002"),
       City("Newark", "40.7245", "-74.1725", "311549"),
       City("Denver", "39.762", "-104.8758", "2650725"),
       City("Paris", "48.8567", "2.3522", "11060000"),
       City("London", "39.8936", "-83.4376", "10279") >>

Airport(code, icao, url, city, latitude, longitude) ==
    [code |-> code, icao |-> icao, url |-> url, city |-> city,
     latitude |-> latitude, longitude |-> longitude]

rawAirportData ==
    << Airport("ARN", "ESSA", "http://www.arlanda.se", "Stockholm", "59.6519", "17.9186"),
       Airport("STO", "ESSB", "http://www.sto.example", "Stockholm", "59.33", "18.06"),
       Airport("EWR", "KEWR", "http://www.ewr.example", "Newark", "40.6925", "-74.1687"),
       Airport("DEN", "KDEN", "http://www.flydenver.com", "Denver", "39.8617", "-104.6731"),
       Airport("HEL", "EFHK", "http://www.hel.example", "Helsinki", "60.3172", "24.9633"),
       Airport("KRN", "ESNQ", "http://www.krn.example", "Kiruna", "67.822", "20.3368"),
       Airport("LIN", "LIML", "", "Denver", "45.4451", "9.2767"),
       Airport("NET", "", "http://www.net.example", "Denver", "1", "1"),
       Airport("LHR", "EGLL", "http://www.heathrow.com", "London", "51.4706", "-0.4619"),
       Airport("CDG", "LFPG", "http://www.cdg.example", " Paris ", "49.0128", "2.55") >>

\* Object.fromEntries(rows.map(row => [key(row), row]))[k]: the LAST row with
\* that key, as a sequence of zero (undefined) or one row
lastWithKey(rows, keys, k) ==
    LET hits == {i \in 1..Len(rows) : keys[i] = k}
    IN  IF hits = {} THEN <<>>
        ELSE <<rows[CHOOSE i \in hits : \A j \in hits : j <= i]>>

cityKeys == [i \in 1..Len(rawCityData) |-> toLowerCase(rawCityData[i].city_ascii)]
cityData(k) == lastWithKey(rawCityData, cityKeys, k)

airportKeys == [i \in 1..Len(rawAirportData) |-> toLowerCase(rawAirportData[i].code)]
airportData(k) == lastWithKey(rawAirportData, airportKeys, k)

KNOWN_REPLACEMENTS ==
    ("hls" :> "hel") @@ ("sto" :> "arn") @@ ("kbn" :> "cph")
    @@ ("kan" :> "mci") @@ ("pal" :> "pao") @@ ("chi" :> "ord")

(***************************************************************************)
(* The hostname heuristic of parseOutput.  A domainAnalysis is a sequence  *)
(* of zero records (undefined) or one record.                              *)
(***************************************************************************)
Analysis(label, lat, lng, population) ==
    [cityOrAirport |-> label, coordinates |-> <<lat, lng>>, population |-> population]

\* result.domainAnalysis?.population || 0
populationOrZero(analysis) ==
    IF analysis # <<>> /\ Truthy(analysis[1].population)
    THEN analysis[1].population ELSE JSNum(0)

\* cityStep without the comparison with the best population so far: the
\* last matching city wins
cityStepLast(domain, city, analysis) ==
    IF /\ includes(toLowerCase(domain), toLowerCase(city.city))
       /\ Len(city.city) > 5
       /\ JSGreater(Number(city.population), JSNum(5000))
    THEN <<Analysis(toLowerCase(city.city), Number(city.lat), Number(city.lng),
                    Number(city.population))>>
    ELSE analysis

\* one iteration of `for (let city of rawCityData)`
cityStep(domain, city, analysis) ==
    IF /\ includes(toLowerCase(domain), toLowerCase(city.city))
       /\ Len(city.city) > 5
       /\ JSGreater(Number(city.population), JSNum(5000))
       /\ JSGreater(Number(city.population), populationOrZero(analysis))
    THEN <<Analysis(toLowerCase(city.city), Number(city.lat), Number(city.lng),
                    Number(city.population))>>
    ELSE analysis

RECURSIVE cityLoop(_, _, _)
cityLoop(domain, k, analysis) ==
    IF k > Len(rawCityData) THEN analysis
    ELSE cityLoop(domain, k + 1, cityStep(domain, rawCityData[k], analysis))

cityPass(domain) == cityLoop(domain, 1, <<>>)

\* domain.match(/[a-z]{3}/g): successive non-overlapping runs of three
\* lower-case letters, left to right (<<>> stands for null)
RECURSIVE domainLocationRegex(_)
domainLocationRegex(s) ==
    IF Len(s) < 3 THEN <<>>
    ELSE IF \A i \in 1..3 : SubSeq(s, i, i) \in LowerLetters
    THEN <<SubSeq(s, 1, 3)>> \o domainLocationRegex(SubSeq(s, 4, Len(s)))
    ELSE domainLocationRegex(Tail(s))

\* normalize without the table of replacements
normalizeNone(match) == match

\* KNOWN_REPLACEMENTS.get(match.toLocaleLowerCase().trim()), then the
\* `if (replacement) match = replacement`
normalize(match) ==
    LET key == trim(toLowerCase(match))
    IN  IF key \in DOMAIN KNOWN_REPLACEMENTS THEN KNOWN_REPLACEMENTS[key] ELSE match

\* the condition of line 210, negated: the airport row can be used
airportUsable(data) ==
    /\ data # <<>>
    /\ data[1].url # ""
    /\ data[1].icao # ""
    /\ LET c == cityData(trim(toLowerCase(data[1].city)))
           population == IF c = <<>> THEN JSNum(0) ELSE Number(c[1].population)
       IN  ~JSLess(population, JSNum(25000))

\* `for (let match of matches)` from the k-th match on: the analysis found
\* and the normalized codes that were looked up, in order
RECURSIVE tokenLoop(_, _, _)
tokenLoop(matches, k, looked) ==
    IF k > Len(matches) THEN [analysis |-> <<>>, looked |-> looked]
    ELSE LET match == normalize(matches[k])
             data == airportData(toLowerCase(match))
         IN  IF ~airportUsable(data)
             THEN tokenLoop(matches, k + 1, Append(looked, match))
             ELSE [analysis |-> <<Analysis(toUpperCase(match),
                                           Number(data[1].latitude),
                                           Number(data[1].longitude),
                                           JSUndefined)>>,
                   looked |-> Append(looked, match)]

tokenPass(domain) == tokenLoop(domainLocationRegex(domain), 1, <<>>)

\* lines 184-223: the city pass, and the token pass when it found nothing
heuristic(domain) ==
    LET c == cityPass(domain)
    IN  IF c # <<>> THEN [analysis |-> c, looked |-> <<>>, tokenPassRan |-> FALSE]
        ELSE LET t == tokenPass(domain)
             IN  [analysis |-> t.analysis, looked |-> t.looked, tokenPassRan |-> TRUE]

(***************************************************************************)
(* Inputs of the model: the trace lines handed to parseOutput.             *)
(***************************************************************************)
\* sequences of at most n elements of S
SeqsUpTo(S, n) == UNION {[1..k -> S] : k \in 0..n}

HeaderLine == "traceroute to 1.1.1.1 (1.1.1.1), 25 hops max, 60 byte packets"
StarLine == " 3  *"
PrivateLine == " 2  10.0.0.5 (10.0.0.5)  1.36 ms"
AirportLine == "10  sto-b2.net (203.0.1.9)  59.621 ms"
PublicLine == "19  203.0.1.9 (203.0.1.9)  160 ms"
\* five tokens, none of them of the form a hop line has
BadLine == "hop sto.net 203.0.1.9 fast s"

TraceLines == {HeaderLine, StarLine, PrivateLine, AirportLine, PublicLine}

\* the traces of two requests that run at the same time
RaceTraces == {<<StarLine, PublicLine>>, <<PublicLine, PrivateLine>>, <<AirportLine, PublicLine>>}

\* addresses on both sides of every boundary isPrivateIP compares with
FirstOctets == {"8", "10", "11", "127", "169", "172", "192"}
SecondOctets == {"0", "15", "16", "31", "32", "168", "254"}
Addresses ==
    {a \o "." \o b \o ".0.1" : a \in FirstOctets, b \in SecondOctets}
    \cup {"10.0.0", "10.0.0.256", "fe80::1"}

AddressLine(ip) == " 1  " \o ip \o " (" \o ip \o ")  1.5 ms"
AddressLines == {AddressLine(ip) : ip \in Addresses}

\* one hop per address, and one trace that meets every kind of line
AddressTraces ==
    {<<l>> : l \in AddressLines} \cup {<<StarLine, AirportLine, PublicLine, PublicLine>>,
          <<PublicLine, BadLine>>}

\* the fragments hostnames are made of, for the heuristic on its own
HostFragments ==
    {"sto", "STO", "ewr", "den", "hel", "lin", "krn", "cdg", "lhr", "chi",
     "London", "stockholm", "linden", "kiruna", "newark", "paris", "-", "1",
     "x", ".net"}

RECURSIVE concat(_)
concat(frags) == IF frags = <<>> THEN "" ELSE Head(frags) \o concat(Tail(frags))

Hostnames == {concat(f) : f \in SeqsUpTo(HostFragments, MaxFrags)}

(***************************************************************************)
(* Parsing one line (lines 154-171).                                       *)
(***************************************************************************)
parts(l) == matchNonBlank(l)

\* the condition of line 155 as `parts.length < 5`
parseableAtLeast(l) == Len(parts(l)) >= 5

parseable(l) == Len(parts(l)) = 5

hopOf(l) ==
    LET p == parts(l)
    IN  [index |-> Number(p[1]),
         delay |-> Number(p[4]),
         domain |-> p[2],
         ip |-> replaceFirst(replaceFirst(p[3], "("), ")"),
         domainAnalysis |-> <<>>]

\* the `if (geolocation[0] !== null && geolocation[1] !== null)` of lines
\* 176-182 and 228-234
withGeolocation(h, geolocation) ==
    IF geolocation[1] # JSNull /\ geolocation[2] # JSNull
    THEN [h EXCEPT !.domainAnalysis =
              <<Analysis("unknown", geolocation[1], geolocation[2], JSNum(0))>>]
    ELSE h

\* results.slice(0)
sliceNone(seq) == seq

\* results.slice(1)
slice1(seq) == IF seq = <<>> THEN <<>> ELSE Tail(seq)

\* The lines of the model, parsed once: what lines 154-223 compute from a
\* line depends on the line alone.
AllLines == TraceLines \cup AddressLines \cup {HeaderLine, BadLine}

parsedLine(l) ==
    IF ~parseable(l) THEN {}
    ELSE {[hop |-> hopOf(l),
           heur |-> heuristic(hopOf(l).domain),
           private |-> isPrivateIP(hopOf(l).ip)]}

\* per line: the empty set when lines 155-158 skip it, else the hop, what
\* the heuristic makes of its hostname and whether its address is private
parsed == [l \in AllLines |-> parsedLine(l)]

(***************************************************************************)
(* The table ips.                                                          *)
(***************************************************************************)
\* what SQLite stores for a bound number: NaN is stored as NULL
sqlBind(v) == IF IsNaN(v) THEN JSNull ELSE v

Row(lat, lng, is_private) ==
    [lat |-> sqlBind(lat), lng |-> sqlBind(lng), is_private |-> is_private]

\* INSERT OR REPLACE: a second row for the address replaces the first
canInsertAlways(table, ip) == TRUE

\* INSERT INTO ips ...: ip is the PRIMARY KEY, a second row for it is refused
canInsert(table, ip) == ip \notin DOMAIN table

\* a resolver that does not persist what it found
insertNothing(table, ip, row) == table

insert(table, ip, row) ==
    [a \in DOMAIN table \cup {ip} |-> IF a = ip THEN row ELSE table[a]]

\* lines 258-269: the answer from a cached row
fromRow(row) ==
    IF row.is_private # 0 THEN <<JSNull, JSNull>>
    ELSE IF row.lat # JSNull /\ row.lng # JSNull THEN <<row.lat, row.lng>>
    ELSE <<JSNull, JSNull>>

(***************************************************************************)
(* Provider answers.  A JSON value is [t, fields]: t is "object", "array", *)
(* "null" or "scalar"; fields maps the keys an object carries to values.   *)
(***************************************************************************)
NoFields == [k \in {} |-> JSNull]
JSONObject(fields) == [t |-> "object", fields |-> fields]
JSONNull == [t |-> "null", fields |-> NoFields]
JSONScalar == [t |-> "scalar", fields |-> NoFields]
JSONArray == [t |-> "array", fields |-> NoFields]

\* the [null, null] tryWithRetry returns on every failure: an array
FailResult == JSONArray

\* a coordinate a provider usually sends
SomeCoordinate == JSDec(5933, -2)

\* the values a provider may send in a coordinate field
FieldValues ==
    {JSNull, JSStr(""), JSFalse, JSNum(0), SomeCoordinate, JSStr("12"),
     JSStr("n/a"), JSTrue}

\* the keys getGeolocation reads from provider p (lines 128-129, 136-137)
keysOf(p) == IF p = 1 THEN <<"lat", "lon">> ELSE <<"latitude", "longitude">>

\* the JSON bodies provider p may send
Bodies(p) ==
    LET k == keysOf(p)
        o == keysOf(3 - p)
    IN  {JSONNull, JSONScalar, JSONArray, JSONObject(NoFields)}
        \cup {JSONObject(k[1] :> SomeCoordinate)}
        \cup {JSONObject((o[1] :> SomeCoordinate) @@ (o[2] :> SomeCoordinate))}
        \cup {JSONObject((k[1] :> v) @@ (k[2] :> SomeCoordinate)) : v \in FieldValues}
        \cup {JSONObject((k[1] :> SomeCoordinate) @@ (k[2] :> v)) : v \in FieldValues}
        \cup {JSONObject((k[1] :> JSNum(0)) @@ (k[2] :> JSNum(0)))}

\* the values of the Retry-After header of a 429 ("": no header)
RetryAfterValues == {"", "2"}

\* valid without the `|| val === 0`
validTruthy(val) == Truthy(val)

\* lines 82-85
valid(val) == Truthy(val) \/ val = JSNum(0)

\* lines 128 and 136 without the test of line 130 / 138: both keys present
hasPairKeys(json, p) ==
    LET k == keysOf(p)
    IN  /\ json.t = "object"
        /\ k[1] \in DOMAIN json.fields
        /\ k[2] \in DOMAIN json.fields

\* the conditions of lines 128-130 and 136-138 on what tryWithRetry returned
hasPair(json, p) ==
    LET k == keysOf(p)
    IN  /\ json.t = "object"
        /\ k[1] \in DOMAIN json.fields
        /\ k[2] \in DOMAIN json.fields
        /\ valid(json.fields[k[1]])
        /\ valid(json.fields[k[2]])

\* rawLatLon.map(val => Number(val))
pairOf(json, p) ==
    LET k == keysOf(p)
    IN  <<ToNumber(json.fields[k[1]]), ToNumber(json.fields[k[2]])>>

\* getGeolocation(ip, maxRetries = 3)
maxRetries == 3
\* the wait, in ms, when a 429 carries no Retry-After header
defaultWait == 5000

\* line 93 as `retries > maxRetries`
retryAllowedInclusive(n) == ~(n > maxRetries)

\* line 93, negated: another retry is allowed
retryAllowed(n) == ~(n >= maxRetries)

\* parseInt(s) for a string of decimal digits
parseInt(s) == decValue(s, 0)

\* line 99: retryAfter ? parseInt(retryAfter) * 1000 : 5000
waitFor(retryAfter) ==
    IF retryAfter # "" THEN parseInt(retryAfter) * 1000 ELSE defaultWait

(***************************************************************************)
(* The requests.  Each request runs parseOutput over its own trace; the    *)
(* table ips is shared by all of them.                                     *)
(***************************************************************************)
Reqs == {"r1", "r2"}

VARIABLES
    heuristicFirst, \* tryAirportAndCityMatchBeforeIpLookup (fixed at start-up)
    ips,            \* the table ips: address -> [lat, lng, is_private]
    lines,          \* per request: the argument of parseOutput
    next,           \* per request: position of the `for (const line of lines)` loop
    results,        \* per request: the local array `results`
    pc,             \* per request: where the request is suspended
    cur,            \* per request: the local `result` of the hop being resolved
    prov,           \* per request: the provider being queried (1, 2; 0: none)
    retries,        \* per request: tryWithRetry's parameter `retries`
    waitTime,       \* per request: the pending sleep, in ms
    output,         \* per request: the value parseOutput resolved with
    error,          \* per request: the exception parseOutput rejected with
    \* history of the run, read by the properties only
    resp,           \* per request: the provider answer the last step received
    fetched,        \* per request: fetches of the current provider for this hop
    slept,          \* per request: waits for the current provider for this hop
    limited,        \* per request: the current provider answered 429 every time
    call,           \* per request: the last completed getLocationFromIp call
    invoked,        \* per request: how often each resolver was invoked
    firstRet,       \* per address: what the call that wrote its row returned
    \* the heuristic on its own
    hDomain, hState, hResult,
    \* GET, up to the call of parseOutput
    gDev,           \* isDev
    gHeader,        \* the CF-Connecting-IP header ("": absent)
    gTarget,        \* the local `ip` handed to traceroute
    gState,         \* where the request is
    served,         \* the page: the JSON body /api answers the page's fetch with
    request,        \* the page: where onMount's callback is suspended
    script,         \* the page: whether the map library's script has loaded
    traceData,      \* the page: `traceData` (<<>>: undefined)
    loading,        \* the page: `loading`
    map,            \* the page: `map` is an initialised map (FALSE: undefined)
    layers,         \* the page: the layers added to the map, in order
    uncaught        \* the page: a callback ended with an exception

pipeVars == <<heuristicFirst, ips, lines, next, results, pc, cur, prov,
              retries, waitTime, output, error, resp, fetched, slept, limited,
              call, invoked, firstRet>>
heurVars == <<hDomain, hState, hResult>>
getVars == <<gDev, gHeader, gTarget, gState>>
pageVars == <<served, request, script, traceData, loading, map, layers, uncaught>>
vars == <<pipeVars, heurVars, getVars, pageVars>>

NullPair == <<JSNull, JSNull>>
NoHop == [index |-> JSNum(0), delay |-> JSNum(0), domain |-> "", ip |-> "",
          domainAnalysis |-> <<>>]
NoCall == [ip |-> "", hit |-> FALSE, ret |-> NullPair, done |-> FALSE]
NoResp == [kind |-> "none", body |-> <<>>]
NoGuess == [analysis |-> <<>>, looked |-> <<>>, tokenPassRan |-> FALSE]

(***************************************************************************)
(* parseOutput, one request r.  pc[r] is "parse" when the loop is about to *)
(* take the line at next[r], "fetch", "text" or "sleep" while the request  *)
(* awaits fetch(url), result.text() or sleep(waitTime), "returned" once    *)
(* parseOutput has resolved and "rejected" once it has thrown.             *)
(***************************************************************************)
atLine(r) == pc[r] = "parse" /\ next[r] <= Len(lines[r])

line(r) == lines[r][next[r]]

\* the address lookup of lines 225-235 without its `if (!result.domainAnalysis)`
needsAddressAlways(p) == TRUE

\* lines 173 and 225: the hop p goes to getLocationFromIp
needsAddress(p) == heuristicFirst => p.heur.analysis = <<>>

countInvocation(r, addr) ==
    invoked' = [invoked EXCEPT ![r] =
                   [heur |-> @.heur + (IF heuristicFirst THEN 1 ELSE 0),
                    addr |-> @.addr + (IF addr THEN 1 ELSE 0)]]

\* results.push(result), and on to the next line
push(r, result) ==
    /\ results' = [results EXCEPT ![r] = Append(@, result)]
    /\ next' = [next EXCEPT ![r] = @ + 1]

completed(r, ip, hit, ret) ==
    call' = [call EXCEPT ![r] = [ip |-> ip, hit |-> hit, ret |-> ret, done |-> TRUE]]

noAnswer(r) == resp' = [resp EXCEPT ![r] = NoResp]

\* lines 154-158: a line that does not have 5 tokens
SkipLine(r) ==
    /\ atLine(r)
    /\ parsed[line(r)] = {}
    /\ next' = [next EXCEPT ![r] = @ + 1]
    /\ noAnswer(r)
    /\ UNCHANGED <<heuristicFirst, ips, lines, results, pc, cur, prov, retries,
                   waitTime, output, error, fetched, slept, limited, call,
                   invoked, firstRet, heurVars, getVars,
                   pageVars>>

\* a variant that runs the heuristic whatever line 173 says
HeuristicHopAlways(r) ==
    /\ atLine(r)
    /\ \E p \in parsed[line(r)] :
          /\ p.heur.analysis # <<>>
          /\ push(r, [p.hop EXCEPT !.domainAnalysis = p.heur.analysis])
    /\ countInvocation(r, FALSE)
    /\ noAnswer(r)
    /\ UNCHANGED <<heuristicFirst, ips, lines, pc, cur, prov, retries,
                   waitTime, output, error, fetched, slept, limited, call,
                   firstRet, heurVars, getVars,
                   pageVars>>

\* lines 184-223 and 238: the heuristic finds a location
HeuristicHop(r) ==
    /\ atLine(r)
    /\ heuristicFirst
    /\ \E p \in parsed[line(r)] :
          /\ p.heur.analysis # <<>>
          /\ push(r, [p.hop EXCEPT !.domainAnalysis = p.heur.analysis])
    /\ countInvocation(r, FALSE)
    /\ noAnswer(r)
    /\ UNCHANGED <<heuristicFirst, ips, lines, pc, cur, prov, retries,
                   waitTime, output, error, fetched, slept, limited, call,
                   firstRet, heurVars, getVars,
                   pageVars>>

\* lines 256-269: getLocationFromIp finds the row of the address
CachedHop(r) ==
    /\ atLine(r)
    /\ \E p \in parsed[line(r)] :
          /\ needsAddress(p)
          /\ p.hop.ip \in DOMAIN ips
          /\ push(r, withGeolocation(p.hop, fromRow(ips[p.hop.ip])))
          /\ completed(r, p.hop.ip, TRUE, fromRow(ips[p.hop.ip]))
    /\ countInvocation(r, TRUE)
    /\ noAnswer(r)
    /\ UNCHANGED <<heuristicFirst, ips, lines, pc, cur, prov, retries,
                   waitTime, output, error, fetched, slept, limited, firstRet,
                   heurVars, getVars,
                   pageVars>>

\* lines 273-277: no row, and the address is private
PrivateHop(r) ==
    /\ atLine(r)
    /\ \E p \in parsed[line(r)] :
          /\ needsAddress(p)
          /\ p.hop.ip \notin DOMAIN ips
          /\ p.private
          /\ ips' = insert(ips, p.hop.ip, Row(JSNull, JSNull, 1))
          /\ firstRet' = insert(firstRet, p.hop.ip, NullPair)
          /\ push(r, withGeolocation(p.hop, NullPair))
          /\ completed(r, p.hop.ip, FALSE, NullPair)
    /\ countInvocation(r, TRUE)
    /\ noAnswer(r)
    /\ UNCHANGED <<heuristicFirst, lines, pc, cur, prov, retries, waitTime,
                   output, error, fetched, slept, limited, heurVars, getVars,
                   pageVars>>

\* lines 279-280, 127, 90: no row, a public address: the first provider is
\* fetched
StartLookup(r) ==
    /\ atLine(r)
    /\ \E p \in parsed[line(r)] :
          /\ needsAddress(p)
          /\ p.hop.ip \notin DOMAIN ips
          /\ ~p.private
          /\ cur' = [cur EXCEPT ![r] = p.hop]
    /\ pc' = [pc EXCEPT ![r] = "fetch"]
    /\ prov' = [prov EXCEPT ![r] = 1]
    /\ retries' = [retries EXCEPT ![r] = 0]
    /\ fetched' = [fetched EXCEPT ![r] = 1]
    /\ slept' = [slept EXCEPT ![r] = 0]
    /\ limited' = [limited EXCEPT ![r] = TRUE]
    /\ countInvocation(r, TRUE)
    /\ noAnswer(r)
    /\ UNCHANGED <<heuristicFirst, ips, lines, next, results, waitTime, output,
                   error, call, firstRet, heurVars, getVars,
                   pageVars>>

\* lines 282-284, then 228-238: getGeolocation has returned coords
finish(r, coords) ==
    /\ prov' = [prov EXCEPT ![r] = 0]
    /\ retries' = [retries EXCEPT ![r] = 0]
    /\ fetched' = [fetched EXCEPT ![r] = 0]
    /\ slept' = [slept EXCEPT ![r] = 0]
    /\ limited' = [limited EXCEPT ![r] = FALSE]
    /\ cur' = [cur EXCEPT ![r] = NoHop]
    /\ IF canInsert(ips, cur[r].ip)
       THEN /\ ips' = insert(ips, cur[r].ip, Row(coords[1], coords[2], 0))
            /\ firstRet' = insert(firstRet, cur[r].ip, coords)
            /\ push(r, withGeolocation(cur[r], coords))
            /\ completed(r, cur[r].ip, FALSE, coords)
            /\ pc' = [pc EXCEPT ![r] = "parse"]
            /\ UNCHANGED error
       ELSE /\ pc' = [pc EXCEPT ![r] = "rejected"]
            /\ error' = [error EXCEPT ![r] = "UNIQUE constraint failed: ips.ip"]
            /\ UNCHANGED <<ips, firstRet, results, next, call>>

\* lines 127-143: tryWithRetry has returned json for provider prov[r]
providerDone(r, json) ==
    IF hasPair(json, prov[r]) \/ prov[r] # 1
    THEN finish(r, IF hasPair(json, prov[r]) THEN pairOf(json, prov[r]) ELSE NullPair)
    ELSE /\ pc' = [pc EXCEPT ![r] = "fetch"]
         /\ prov' = [prov EXCEPT ![r] = 2]
         /\ retries' = [retries EXCEPT ![r] = 0]
         /\ fetched' = [fetched EXCEPT ![r] = 1]
         /\ slept' = [slept EXCEPT ![r] = 0]
         /\ limited' = [limited EXCEPT ![r] = TRUE]
         /\ UNCHANGED <<ips, firstRet, results, next, call, error, cur>>

answered(r, kind, body) ==
    resp' = [resp EXCEPT ![r] = [kind |-> kind, body |-> body]]

\* lines 121-124: fetch(url) throws
FetchThrows(r) ==
    /\ pc[r] = "fetch"
    /\ answered(r, "throw", <<>>)
    /\ providerDone(r, FailResult)
    /\ UNCHANGED <<heuristicFirst, lines, waitTime, output, invoked, heurVars, getVars,
                   pageVars>>

\* a variant that treats every non-success status as line 92 treats a 429: it
\* waits and fetches the provider again
FetchHttpErrorRetry(r) ==
    /\ pc[r] = "fetch"
    /\ retryAllowed(retries[r])
    /\ answered(r, "http-error", <<>>)
    /\ waitTime' = [waitTime EXCEPT ![r] = defaultWait]
    /\ pc' = [pc EXCEPT ![r] = "sleep"]
    /\ slept' = [slept EXCEPT ![r] = @ + 1]
    /\ UNCHANGED <<heuristicFirst, ips, lines, next, results, cur, prov,
                   retries, output, error, fetched, limited, call, invoked,
                   firstRet, heurVars, getVars,
                   pageVars>>

\* lines 106-109: a status that is neither 429 nor a success
FetchHttpError(r) ==
    /\ pc[r] = "fetch"
    /\ answered(r, "http-error", <<>>)
    /\ providerDone(r, FailResult)
    /\ UNCHANGED <<heuristicFirst, lines, waitTime, output, invoked, heurVars, getVars,
                   pageVars>>

\* lines 92, 98-103: a 429 below the ceiling: wait, then fetch again
FetchRateLimited(r) ==
    /\ pc[r] = "fetch"
    /\ retryAllowed(retries[r])
    /\ answered(r, "429", <<>>)
    /\ \E retryAfter \in RetryAfterValues :
          waitTime' = [waitTime EXCEPT ![r] = waitFor(retryAfter)]
    /\ pc' = [pc EXCEPT ![r] = "sleep"]
    /\ slept' = [slept EXCEPT ![r] = @ + 1]
    /\ UNCHANGED <<heuristicFirst, ips, lines, next, results, cur, prov,
                   retries, output, error, fetched, limited, call, invoked,
                   firstRet, heurVars, getVars,
                   pageVars>>

\* lines 92-96: a 429 at the ceiling: the provider is given up
FetchRateLimitExhausted(r) ==
    /\ pc[r] = "fetch"
    /\ ~retryAllowed(retries[r])
    /\ answered(r, "429", <<>>)
    /\ providerDone(r, FailResult)
    /\ UNCHANGED <<heuristicFirst, lines, waitTime, output, invoked, heurVars, getVars,
                   pageVars>>

\* lines 102-103 and 90: the wait is over, tryWithRetry(url, retries + 1)
SleepReturns(r) ==
    /\ pc[r] = "sleep"
    /\ pc' = [pc EXCEPT ![r] = "fetch"]
    /\ retries' = [retries EXCEPT ![r] = @ + 1]
    /\ waitTime' = [waitTime EXCEPT ![r] = 0]
    /\ fetched' = [fetched EXCEPT ![r] = @ + 1]
    /\ noAnswer(r)
    /\ UNCHANGED <<heuristicFirst, ips, lines, next, results, cur, prov,
                   output, error, slept, limited, call, invoked, firstRet,
                   heurVars, getVars,
                   pageVars>>

\* line 111: a success status: the body is read
FetchOk(r) ==
    /\ pc[r] = "fetch"
    /\ answered(r, "ok", <<>>)
    /\ pc' = [pc EXCEPT ![r] = "text"]
    /\ limited' = [limited EXCEPT ![r] = FALSE]
    /\ UNCHANGED <<heuristicFirst, ips, lines, next, results, cur, prov,
                   retries, waitTime, output, error, fetched, slept, call,
                   invoked, firstRet, heurVars, getVars,
                   pageVars>>

\* lines 111, 121-124: result.text() throws
TextThrows(r) ==
    /\ pc[r] = "text"
    /\ answered(r, "text-throw", <<>>)
    /\ providerDone(r, FailResult)
    /\ UNCHANGED <<heuristicFirst, lines, waitTime, output, invoked, heurVars, getVars,
                   pageVars>>

\* lines 113-118: the body is not JSON
TextUnparsable(r) ==
    /\ pc[r] = "text"
    /\ answered(r, "unparsable", <<>>)
    /\ providerDone(r, FailResult)
    /\ UNCHANGED <<heuristicFirst, lines, waitTime, output, invoked, heurVars, getVars,
                   pageVars>>

\* lines 114, 120: the body is JSON, and tryWithRetry returns it as it is
TextJson(r) ==
    /\ pc[r] = "text"
    /\ \E json \in Bodies(prov[r]) :
          /\ answered(r, "json", <<json>>)
          /\ providerDone(r, json)
    /\ UNCHANGED <<heuristicFirst, lines, waitTime, output, invoked, heurVars, getVars,
                   pageVars>>

\* a variant that returns, and drops the first record, before the loop is
\* over
ReturnEarly(r) ==
    /\ pc[r] = "parse"
    /\ output' = [output EXCEPT ![r] = slice1(results[r])]
    /\ pc' = [pc EXCEPT ![r] = "returned"]
    /\ noAnswer(r)
    /\ UNCHANGED <<heuristicFirst, ips, lines, next, results, cur, prov,
                   retries, waitTime, error, fetched, slept, limited, call,
                   invoked, firstRet, heurVars, getVars,
                   pageVars>>

\* lines 241-242: every line is consumed
Return(r) ==
    /\ pc[r] = "parse"
    /\ next[r] > Len(lines[r])
    /\ output' = [output EXCEPT ![r] = slice1(results[r])]
    /\ pc' = [pc EXCEPT ![r] = "returned"]
    /\ noAnswer(r)
    /\ UNCHANGED <<heuristicFirst, ips, lines, next, results, cur, prov,
                   retries, waitTime, error, fetched, slept, limited, call,
                   invoked, firstRet, heurVars, getVars,
                   pageVars>>

\* one step of request r
RequestStep(r) ==
    \/ SkipLine(r)
    \/ HeuristicHop(r)
    \/ CachedHop(r)
    \/ PrivateHop(r)
    \/ StartLookup(r)
    \/ FetchThrows(r)
    \/ FetchHttpError(r)
    \/ FetchRateLimited(r)
    \/ FetchRateLimitExhausted(r)
    \/ SleepReturns(r)
    \/ FetchOk(r)
    \/ TextThrows(r)
    \/ TextUnparsable(r)
    \/ TextJson(r)
    \/ Return(r)

Next == \E r \in Reqs : RequestStep(r)

(***************************************************************************)
(* Initial states.                                                         *)
(***************************************************************************)
EmptyTable == [a \in {} |-> 0]

\* the requests of `running` are in parseOutput, each with a trace of
\* `traces`; the other requests never arrive
pipeInit(running, traces) ==
    /\ heuristicFirst \in BOOLEAN
    /\ ips = EmptyTable
    /\ firstRet = EmptyTable
    /\ lines \in [Reqs -> traces \cup {<<>>}]
    /\ \A r \in Reqs \ running : lines[r] = <<>>
    /\ \A r \in running : lines[r] \in traces
    /\ next = [r \in Reqs |-> 1]
    /\ results = [r \in Reqs |-> <<>>]
    /\ pc = [r \in Reqs |-> IF r \in running THEN "parse" ELSE "idle"]
    /\ cur = [r \in Reqs |-> NoHop]
    /\ prov = [r \in Reqs |-> 0]
    /\ retries = [r \in Reqs |-> 0]
    /\ waitTime = [r \in Reqs |-> 0]
    /\ output = [r \in Reqs |-> <<>>]
    /\ error = [r \in Reqs |-> ""]
    /\ resp = [r \in Reqs |-> NoResp]
    /\ fetched = [r \in Reqs |-> 0]
    /\ slept = [r \in Reqs |-> 0]
    /\ limited = [r \in Reqs |-> FALSE]
    /\ call = [r \in Reqs |-> NoCall]
    /\ invoked = [r \in Reqs |-> [heur |-> 0, addr |-> 0]]

heurOff == hDomain = "" /\ hState = "off" /\ hResult = NoGuess

getOff == gDev = FALSE /\ gHeader = "" /\ gTarget = "" /\ gState = "off"

\* no page is open
pageOff ==
    /\ served = <<>>
    /\ request = "off"
    /\ script = "off"
    /\ traceData = <<>>
    /\ loading = TRUE
    /\ map = FALSE
    /\ layers = <<>>
    /\ uncaught = FALSE

\* one request, every trace of at most MaxLines lines
Init == pipeInit({"r1"}, SeqsUpTo(TraceLines, MaxLines)) /\ heurOff /\ getOff /\ pageOff

Spec == Init /\ [][Next]_vars

\* two requests at the same time
RaceInit == pipeInit(Reqs, RaceTraces) /\ heurOff /\ getOff /\ pageOff

SpecRace == RaceInit /\ [][Next]_vars

\* one request, the traces of AddressTraces
AddrInit == pipeInit({"r1"}, AddressTraces) /\ heurOff /\ getOff /\ pageOff

SpecAddr == AddrInit /\ [][Next]_vars

(***************************************************************************)
(* The heuristic of lines 184-223 on its own, over the hostnames of        *)
(* Hostnames; no request runs.                                             *)
(***************************************************************************)
HeurInit ==
    /\ pipeInit({}, {<<>>})
    /\ heuristicFirst
    /\ hDomain \in Hostnames
    /\ hState = "ready"
    /\ hResult = NoGuess
    /\ getOff
    /\ pageOff

Analyse ==
    /\ hState = "ready"
    /\ hResult' = heuristic(hDomain)
    /\ hState' = "done"
    /\ UNCHANGED <<hDomain, pipeVars, getVars,
                   pageVars>>

HeurNext == Analyse

SpecHeur == HeurInit /\ [][HeurNext]_vars

(***************************************************************************)
(* GET (lines 288-328) up to the call of parseOutput.  net.isIP is node's: *)
(* 4 for four decimal octets of 0..255 without leading zeros, 6 for an     *)
(* IPv6 address (here: groups of 1 to 4 hexadecimal digits, eight of them, *)
(* or fewer around one "::"), else 0.                                      *)
(***************************************************************************)
isOctet(s) ==
    /\ s # ""
    /\ Len(s) <= 3
    /\ allDigits(s)
    /\ (Len(s) > 1 => Head(s) # "0")
    /\ decValue(s, 0) <= 255

isIPv4(s) ==
    LET strs == split(s, ".")
    IN  Len(strs) = 4 /\ \A k \in 1..4 : isOctet(strs[k])

HexDigits == DOMAIN DigitVal \cup {"a", "b", "c", "d", "e", "f",
                                   "A", "B", "C", "D", "E", "F"}

isGroup(s) ==
    /\ s # ""
    /\ Len(s) <= 4
    /\ \A i \in 1..Len(s) : SubSeq(s, i, i) \in HexDigits

isIPv6(s) ==
    LET g == split(s, ":")
        n == Len(g)
        empty == {k \in 1..n : g[k] = ""}
        inner == {k \in empty : 1 < k /\ k < n}
    IN  /\ n >= 3
        /\ \A k \in 1..n : g[k] = "" \/ isGroup(g[k])
        /\ IF empty = {} THEN n = 8
           ELSE /\ n - Cardinality(empty) <= 7
                /\ n <= 9
                \* one "::" : at the start, at the end, alone, or inside
                /\ \/ s = "::"
                   \/ empty = {1, 2}
                   \/ empty = {n - 1, n}
                   \/ (Cardinality(inner) = 1 /\ empty = inner)

isIP(s) == IF isIPv4(s) THEN 4 ELSE IF isIPv6(s) THEN 6 ELSE 0

\* the values of the CF-Connecting-IP header ("": the header is absent)
Headers ==
    Addresses \cup {"", "8.8.8.8", "127.0.0.1", "192.168.32.1", "01.2.3.4",
                    "256.1.1.1", "1.2.3.4.5", "example.com", "::1",
                    "2001:db8::1", "1::2::3", "8.8.8.8, 1.1.1.1"}

\* line 300: request.headers.get("CF-Connecting-IP") || "127.0.0.1"
targetOf(header) == IF header = "" THEN "127.0.0.1" ELSE header

\* lines 289-297: development mode answers from TEST_TRACEROUTE
GetDev ==
    /\ gState = "received"
    /\ gDev
    /\ gState' = "parsing"
    /\ UNCHANGED <<gDev, gHeader, gTarget, pipeVars, heurVars, pageVars>>

\* lines 302-306
GetReject ==
    /\ gState = "received"
    /\ ~gDev
    /\ isIP(targetOf(gHeader)) = 0
    /\ gTarget' = targetOf(gHeader)
    /\ gState' = "422"
    /\ UNCHANGED <<gDev, gHeader, pipeVars, heurVars, pageVars>>

\* lines 308-309: execFile("traceroute", [..., ip])
GetProbe ==
    /\ gState = "received"
    /\ ~gDev
    /\ isIP(targetOf(gHeader)) # 0
    /\ gTarget' = targetOf(gHeader)
    /\ gState' = "probing"
    /\ UNCHANGED <<gDev, gHeader, pipeVars, heurVars, pageVars>>

\* lines 310-319: the probe failed
ProbeError ==
    /\ gState = "probing"
    /\ gState' = "500"
    /\ UNCHANGED <<gDev, gHeader, gTarget, pipeVars, heurVars, pageVars>>

\* line 321: parseOutput is called with the probe's output
ProbeOutput ==
    /\ gState = "probing"
    /\ gState' = "parsing"
    /\ UNCHANGED <<gDev, gHeader, gTarget, pipeVars, heurVars, pageVars>>

GetNext == GetDev \/ GetReject \/ GetProbe \/ ProbeError \/ ProbeOutput

GetInit ==
    /\ pipeInit({}, {<<>>})
    /\ heuristicFirst
    /\ heurOff
    /\ gDev \in BOOLEAN
    /\ gHeader \in Headers
    /\ gTarget = ""
    /\ gState = "received"
    /\ pageOff

SpecGet == GetInit /\ [][GetNext]_vars

(***************************************************************************)
(* The page.  onMount fetches /api and draws the route; the onload of the  *)
(* map library's script runs mapLoad.  Each callback runs to its next      *)
(* await, or to its end, in one step.                                      *)
(***************************************************************************)
\* records /api may answer with: located by a provider, located by the
\* heuristic, without a location
PageHops ==
    {withGeolocation(hopOf(PublicLine), <<SomeCoordinate, SomeCoordinate>>),
     [hopOf(AirportLine) EXCEPT !.domainAnalysis = heuristic("sto-b2.net").analysis],
     hopOf(PrivateLine)}

PageTraces == SeqsUpTo(PageHops, MaxLines)

\* lines 218-227: the synthetic origin
OriginServer ==
    [index |-> JSNum(0), delay |-> JSNum(0), domain |-> "Origin Server",
     ip |-> "Unknown",
     domainAnalysis |-> <<Analysis("", JSDec(423584, -4), JSDec(-710598, -4),
                                   JSUndefined)>>]

\* lines 205-209: the tile layer
tileLayer == [kind |-> "tile", points |-> <<>>, hop |-> <<>>]

\* L.marker([lat, lng]) with the popup of the hop (lines 248, 255)
marker(h) ==
    [kind |-> "marker", points |-> <<h.domainAnalysis[1].coordinates>>,
     hop |-> <<h.index, h.domain, h.ip, h.delay>>]

\* new L.Polyline([oldPoint, newPoint], ...) (lines 238-246)
polyline(old, new) ==
    [kind |-> "polyline",
     points |-> <<old.domainAnalysis[1].coordinates, new.domainAnalysis[1].coordinates>>,
     hop |-> <<>>]

\* lines 228-255: the loop from the k-th record on and the marker after it:
\* the layers it adds, in order
RECURSIVE addLoop(_, _, _)
addLoop(trace, k, lastData) ==
    IF k > Len(trace) THEN <<marker(lastData)>>
    ELSE IF trace[k].domainAnalysis = <<>> THEN addLoop(trace, k + 1, lastData)
    ELSE IF lastData.domainAnalysis = <<>> THEN addLoop(trace, k + 1, trace[k])
    ELSE <<marker(lastData), polyline(lastData, trace[k])>>
         \o addLoop(trace, k + 1, trace[k])

\* lines 216-256 on a map that holds the layers `on`: every layer is added
\* with addTo(map!), which throws when map is undefined; the first addTo is
\* reached for every trace (line 255 at the latest), before anything is added
addTraceroutes(trace, initialised, on) ==
    IF initialised
    THEN [layers |-> on \o addLoop(trace, 1, OriginServer), threw |-> FALSE]
    ELSE [layers |-> on, threw |-> TRUE]

\* line 197: fetch("/api") returns the response
PageResponds ==
    /\ request = "fetch"
    /\ request' = "json"
    /\ UNCHANGED <<served, script, traceData, loading, map, layers, uncaught,
                   pipeVars, heurVars, getVars>>

\* lines 198-201: the body is there
PageData ==
    /\ request = "json"
    /\ traceData' = <<served>>
    /\ loading' = FALSE
    /\ LET drawn == addTraceroutes(served, map, layers)
       IN  /\ layers' = drawn.layers
           /\ uncaught' = (uncaught \/ drawn.threw)
           /\ request' = IF drawn.threw THEN "failed" ELSE "done"
    /\ UNCHANGED <<served, script, map, pipeVars, heurVars, getVars>>

\* a variant of mapLoad without lines 211-213
MapLoadNoReplay ==
    /\ script = "loading"
    /\ script' = "loaded"
    /\ map' = TRUE
    /\ layers' = <<tileLayer>>
    /\ UNCHANGED <<served, request, traceData, loading, uncaught, pipeVars,
                   heurVars, getVars>>

\* lines 204-214: the script's onload
MapLoad ==
    /\ script = "loading"
    /\ script' = "loaded"
    /\ map' = TRUE
    /\ LET drawn == IF traceData # <<>>
                    THEN addTraceroutes(traceData[1], TRUE, <<tileLayer>>)
                    ELSE [layers |-> <<tileLayer>>, threw |-> FALSE]
       IN  /\ layers' = drawn.layers
           /\ uncaught' = (uncaught \/ drawn.threw)
    /\ UNCHANGED <<served, request, traceData, loading, pipeVars, heurVars,
                   getVars>>

PageNext == PageResponds \/ PageData \/ MapLoad

\* the page is mounted: onMount has started its fetch, the script is loading
PageInit ==
    /\ pipeInit({}, {<<>>})
    /\ heuristicFirst
    /\ heurOff
    /\ getOff
    /\ served \in PageTraces
    /\ request = "fetch"
    /\ script = "loading"
    /\ traceData = <<>>
    /\ loading = TRUE
    /\ map = FALSE
    /\ layers = <<>>
    /\ uncaught = FALSE

SpecPage == PageInit /\ [][PageNext]_vars

(***************************************************************************)
(* Properties.                                                             *)
(***************************************************************************)
\* request r takes the step
stepOf(r) == <<pc[r], next[r], prov[r]>>' # <<pc[r], next[r], prov[r]>>

\* the hops parseOutput is about to hand to getLocationFromIp for request r
toResolve(r) ==
    IF atLine(r) THEN {p \in parsed[line(r)] : needsAddress(p)} ELSE {}

\* ip is four decimal octets
IsDottedQuad(ip) ==
    LET strs == split(ip, ".")
    IN  /\ Len(strs) = 4
        /\ \A k \in 1..4 :
              strs[k] # "" /\ allDigits(strs[k]) /\ decValue(strs[k], 0) <= 255

\* the leading 16 bits of a dotted quad
Prefix16(ip) ==
    LET strs == split(ip, ".")
    IN  decValue(strs[1], 0) * 256 + decValue(strs[2], 0)

\* 10.0.0.0/8, 172.16.0.0/12, 192.168.0.0/16, 127.0.0.0/8, 169.254.0.0/16
InPrivateRange(ip) ==
    /\ IsDottedQuad(ip)
    /\ \/ Prefix16(ip) \div 256 = 10
       \/ Prefix16(ip) \div 16 = (172 * 256 + 16) \div 16
       \/ Prefix16(ip) = 192 * 256 + 168
       \/ Prefix16(ip) \div 256 = 127
       \/ Prefix16(ip) = 169 * 256 + 254

\* C1: getLocationFromIp on an address of a private range that has no row
\* returns [null, null], adds exactly one row, marked private with null
\* coordinates, changes no other row, and fetches from no provider.
C1_PrivateAddress ==
    [][\A r \in Reqs : \A p \in toResolve(r) :
          ( /\ InPrivateRange(p.hop.ip)
            /\ p.hop.ip \notin DOMAIN ips
            /\ stepOf(r) )
          => /\ call'[r] = [ip |-> p.hop.ip, hit |-> FALSE, ret |-> NullPair,
                            done |-> TRUE]
             /\ DOMAIN ips' = DOMAIN ips \cup {p.hop.ip}
             /\ ips'[p.hop.ip] = [lat |-> JSNull, lng |-> JSNull, is_private |-> 1]
             /\ \A a \in DOMAIN ips : ips'[a] = ips[a]
             /\ pc'[r] = "parse"
             /\ prov'[r] = 0
             /\ fetched'[r] = 0
             /\ results'[r] = Append(results[r], p.hop)]_vars

\* the last address of 172.16.0.0/12 has been resolved as private
C1_Witness ==
    /\ call["r1"] = [ip |-> "172.31.0.1", hit |-> FALSE, ret |-> NullPair,
                     done |-> TRUE]
    /\ "172.31.0.1" \in DOMAIN ips
    /\ ips["172.31.0.1"].is_private = 1

\* C2: a getLocationFromIp call answered from the row of the address returns
\* exactly what the call that wrote the row returned.
C2_Idempotent ==
    \A r \in Reqs :
        (call[r].done /\ call[r].hit) => call[r].ret = firstRet[call[r].ip]

\* C3: when two requests resolve the same address at the same time, neither
\* getLocationFromIp call fails.
C3_RaceHarmless == \A r \in Reqs : error[r] = ""

\* the number of lines of request r that have 5 tokens
parseableCount(r) ==
    Cardinality({k \in 1..Len(lines[r]) : Len(matchNonBlank(lines[r][k])) = 5})

\* C4: no failure while a hop is resolved aborts the trace: a request that
\* has stopped has processed every line and pushed every hop.
C4_NoFailureAborts ==
    \A r \in Reqs :
        pc[r] \notin {"parse", "fetch", "text", "sleep"}
        => /\ next[r] > Len(lines[r])
           /\ Len(results[r]) = parseableCount(r)

\* the lines of seq that have 5 tokens, in their order
parseableLines(seq) == SelectSeq(seq, LAMBDA l : Len(matchNonBlank(l)) = 5)

\* C5: parseOutput returns the records of the lines with 5 tokens, in the
\* order of the lines, without the first of them: one record fewer than such
\* lines (none when there is no such line), hops without a location included.
C5_OutputSequence ==
    \A r \in Reqs :
        pc[r] = "returned"
        => LET want == parseableLines(lines[r])
           IN  /\ Len(output[r]) = IF want = <<>> THEN 0 ELSE Len(want) - 1
               /\ \A k \in 1..Len(output[r]) :
                     [output[r][k] EXCEPT !.domainAnalysis = <<>>] = hopOf(want[k + 1])

\* three hops in, the last two out, the first of them without a location
C5_Witness ==
    /\ pc["r1"] = "returned"
    /\ lines["r1"] = <<AirportLine, PrivateLine, PublicLine>>
    /\ Len(output["r1"]) = 2
    /\ output["r1"][1].index = JSNum(2)
    /\ output["r1"][1].domainAnalysis = <<>>
    /\ output["r1"][2].index = JSNum(19)

\* C6: a line that does not have 5 tokens adds no record, invokes neither
\* resolver, leaves the table ips as it is, and the loop goes on to the next
\* line.
C6_MalformedLine ==
    [][\A r \in Reqs :
          ( /\ atLine(r)
            /\ Len(matchNonBlank(line(r))) # 5
            /\ stepOf(r) )
          => /\ results' = results
             /\ invoked' = invoked
             /\ call' = call
             /\ ips' = ips
             /\ next'[r] = next[r] + 1
             /\ pc'[r] = "parse"]_vars

\* the header and a lone '*' were skipped, the hop after them was resolved
C6_Witness ==
    /\ lines["r1"] = <<HeaderLine, StarLine, PublicLine>>
    /\ next["r1"] = 4
    /\ Len(results["r1"]) = 1
    /\ invoked["r1"].addr = 1

\* C7: while a provider has answered 429 to every fetch, each fetch but the
\* first follows exactly one wait; a 429 to one of the first 3 fetches is
\* followed by a wait and a new fetch of the same provider; a 429 to the 4th
\* fetch ends the provider: the second provider is fetched next, or, after
\* the second provider, none; provider 1 is not fetched after provider 2.
C7_RetryBound ==
    [][\A r \in Reqs :
          /\ (pc[r] = "fetch" /\ limited[r])
             => (fetched[r] <= 4 /\ slept[r] = fetched[r] - 1)
          /\ (pc[r] = "fetch" /\ limited[r] /\ stepOf(r) /\ resp'[r].kind = "429")
             => IF fetched[r] < 4
                THEN pc'[r] = "sleep" /\ prov'[r] = prov[r] /\ slept'[r] = slept[r] + 1
                ELSE /\ slept[r] = 3
                     /\ pc'[r] # "sleep"
                     /\ IF prov[r] = 1
                        THEN prov'[r] = 2 /\ pc'[r] = "fetch" /\ fetched'[r] = 1
                        ELSE prov'[r] = 0
          /\ (pc[r] = "sleep" /\ stepOf(r))
             => /\ pc'[r] = "fetch"
                /\ prov'[r] = prov[r]
                /\ fetched'[r] = fetched[r] + 1
          /\ prov[r] = 2 => prov'[r] # 1]_vars

\* the first provider answered 429 four times and the second is being fetched
C7_Witness ==
    /\ pc["r1"] = "fetch"
    /\ prov["r1"] = 2
    /\ resp["r1"].kind = "429"
    /\ fetched["r1"] = 1
    /\ slept["r1"] = 0

\* json carries two numbers under the keys of provider p, one of them 0
zeroPair(json, p) ==
    LET k == keysOf(p)
    IN  /\ json.t = "object"
        /\ {k[1], k[2]} \subseteq DOMAIN json.fields
        /\ \A i \in 1..2 : IsFinite(json.fields[k[i]])
        /\ \E i \in 1..2 : json.fields[k[i]] = JSNum(0)

located(h, pair) ==
    [h EXCEPT !.domainAnalysis =
        <<[cityOrAirport |-> "unknown", coordinates |-> pair, population |-> JSNum(0)]>>]

\* C8: a pair of numbers with a component 0 sent by a provider is the result:
\* no further provider is fetched, the pair is stored in the row, returned by
\* getLocationFromIp and attached to the hop; a row holding such a pair
\* answers a later call with the pair, which is attached to the hop.
C8_ZeroIsValid ==
    [][\A r \in Reqs :
          /\ ( /\ pc[r] = "text"
               /\ stepOf(r)
               /\ resp'[r].kind = "json"
               /\ zeroPair(resp'[r].body[1], prov[r]) )
             => LET json == resp'[r].body[1]
                    k == keysOf(prov[r])
                    pair == <<json.fields[k[1]], json.fields[k[2]]>>
                IN  /\ prov'[r] = 0
                    /\ pc'[r] = "parse"
                    /\ cur[r].ip \in DOMAIN ips'
                    /\ ips'[cur[r].ip] = [lat |-> pair[1], lng |-> pair[2], is_private |-> 0]
                    /\ call'[r] = [ip |-> cur[r].ip, hit |-> FALSE, ret |-> pair,
                                   done |-> TRUE]
                    /\ results'[r] = Append(results[r], located(cur[r], pair))
          /\ \A p \in toResolve(r) :
                ( /\ stepOf(r)
                  /\ p.hop.ip \in DOMAIN ips
                  /\ ips[p.hop.ip].is_private = 0
                  /\ IsFinite(ips[p.hop.ip].lat)
                  /\ IsFinite(ips[p.hop.ip].lng)
                  /\ JSNum(0) \in {ips[p.hop.ip].lat, ips[p.hop.ip].lng} )
                => LET pair == <<ips[p.hop.ip].lat, ips[p.hop.ip].lng>>
                   IN  /\ call'[r] = [ip |-> p.hop.ip, hit |-> TRUE, ret |-> pair,
                                      done |-> TRUE]
                       /\ results'[r] = Append(results[r], located(p.hop, pair))
                       /\ ips' = ips]_vars

\* (0, 0) was stored for an address and a later hop got it from the row
C8_Witness ==
    /\ call["r1"].done
    /\ call["r1"].hit
    /\ call["r1"].ret = <<JSNum(0), JSNum(0)>>
    /\ Len(results["r1"]) = 2
    /\ results["r1"][2].domainAnalysis # <<>>
    /\ results["r1"][2].domainAnalysis[1].coordinates = <<JSNum(0), JSNum(0)>>

\* the rows of rawCityData whose name, longer than 5 characters, is in the
\* hostname whatever the case, and whose population exceeds 5000
qualifying(domain) ==
    {k \in 1..Len(rawCityData) :
        /\ includes(toLowerCase(domain), toLowerCase(rawCityData[k].city))
        /\ Len(rawCityData[k].city) > 5
        /\ JSGreater(Number(rawCityData[k].population), JSNum(5000))}

\* C9: when a city qualifies, the guess is a qualifying city of the highest
\* population, and the token pass does not run and looks up no airport.
C9_CityFirst ==
    (hState = "done" /\ qualifying(hDomain) # {})
    => /\ \E k \in qualifying(hDomain) :
            /\ \A j \in qualifying(hDomain) :
                  ~JSGreater(Number(rawCityData[j].population),
                             Number(rawCityData[k].population))
            /\ hResult.analysis =
                  <<[cityOrAirport |-> toLowerCase(rawCityData[k].city),
                     coordinates |-> <<Number(rawCityData[k].lat),
                                       Number(rawCityData[k].lng)>>,
                     population |-> Number(rawCityData[k].population)]>>
       /\ ~hResult.tokenPassRan
       /\ hResult.looked = <<>>

\* a hostname with the airport token sto and the city London: London it is
C9_Witness ==
    /\ hState = "done"
    /\ hDomain = "stoLondon"
    /\ hResult.analysis # <<>>
    /\ hResult.analysis[1].cityOrAirport = "london"
    /\ hResult.analysis[1].population = JSNum(11262000)

\* the code a token stands for
codeOf(token) ==
    IF token \in DOMAIN KNOWN_REPLACEMENTS THEN KNOWN_REPLACEMENTS[token] ELSE token

\* the airport of code c has a URL, an ICAO identifier and a city of at
\* least 25000 inhabitants
usableCode(c) ==
    \E a \in {airportData(c)[i] : i \in 1..Len(airportData(c))} :
        /\ a.url # ""
        /\ a.icao # ""
        /\ \E city \in {cityData(trim(toLowerCase(a.city)))[i] :
                          i \in 1..Len(cityData(trim(toLowerCase(a.city))))} :
              ~JSLess(Number(city.population), JSNum(25000))

\* C10: when no city qualifies, the guess is the airport of the first token
\* of the hostname whose code is usable, labelled with that code in upper
\* case; the tokens before it were looked up and skipped, those after it
\* were not looked up; without a usable token there is no guess.
C10_FirstUsableToken ==
    (hState = "done" /\ qualifying(hDomain) = {})
    => LET tokens == domainLocationRegex(hDomain)
           codes == [k \in 1..Len(tokens) |-> codeOf(tokens[k])]
           usable == {k \in 1..Len(tokens) : usableCode(codes[k])}
       IN  /\ hResult.tokenPassRan
           /\ IF usable = {}
              THEN hResult.analysis = <<>> /\ hResult.looked = codes
              ELSE LET first == CHOOSE k \in usable : \A j \in usable : k <= j
                       data == airportData(codes[first])[1]
                   IN  /\ hResult.analysis =
                             <<[cityOrAirport |-> toUpperCase(codes[first]),
                                coordinates |-> <<Number(data.latitude),
                                                  Number(data.longitude)>>,
                                population |-> JSUndefined]>>
                       /\ hResult.looked = SubSeq(codes, 1, first)

\* lin has no usable airport and is skipped, sto stands for arn
C10_Witness ==
    /\ hState = "done"
    /\ hDomain = "linsto"
    /\ hResult.looked = <<"lin", "arn">>
    /\ hResult.analysis # <<>>
    /\ hResult.analysis[1].cityOrAirport = "ARN"

unroutable(ip) == isIP(ip) = 0 \/ InPrivateRange(ip)

\* C12: outside development mode, a request whose target is invalid or
\* unroutable is answered 422: the probe is not started and parseOutput is
\* not called for it.
C12_UnroutableRejected ==
    (~gDev /\ gState \notin {"off", "received"} /\ unroutable(targetOf(gHeader)))
    => gState = "422"

\* C13: every record of a returned output that carries a domainAnalysis has
\* two finite numbers as coordinates.
C13_FiniteCoordinates ==
    \A r \in Reqs :
        pc[r] = "returned"
        => \A k \in 1..Len(output[r]) :
              output[r][k].domainAnalysis # <<>>
              => /\ IsFinite(output[r][k].domainAnalysis[1].coordinates[1])
                 /\ IsFinite(output[r][k].domainAnalysis[1].coordinates[2])

\* the city pass or the token pass has a guess for the hostname
guessExists(domain) ==
    \/ qualifying(domain) # {}
    \/ \E k \in 1..Len(domainLocationRegex(domain)) :
          usableCode(codeOf(domainLocationRegex(domain)[k]))

\* C14: with the heuristic first, a hop whose hostname has a guess is pushed
\* with that guess without getLocationFromIp being invoked, without a read or
\* a write of the table ips and without a fetch; a hop whose hostname has no
\* guess invokes getLocationFromIp.
C14_HeuristicOrAddress ==
    [][\A r \in Reqs :
          ( /\ heuristicFirst
            /\ atLine(r)
            /\ Len(matchNonBlank(line(r))) = 5
            /\ stepOf(r) )
          => IF guessExists(matchNonBlank(line(r))[2])
             THEN /\ invoked'[r].addr = invoked[r].addr
                  /\ call' = call
                  /\ ips' = ips
                  /\ pc'[r] = "parse"
                  /\ fetched'[r] = 0
                  /\ results'[r] =
                        Append(results[r],
                               [hopOf(line(r)) EXCEPT !.domainAnalysis =
                                   heuristic(matchNonBlank(line(r))[2]).analysis])
             ELSE invoked'[r].addr = invoked[r].addr + 1]_vars

\* a hop was pushed with the airport guess and nothing was looked up; the
\* hop after it went to getLocationFromIp
C14_Witness ==
    /\ heuristicFirst
    /\ lines["r1"] = <<AirportLine, PublicLine>>
    /\ Len(results["r1"]) = 2
    /\ results["r1"][1].domainAnalysis # <<>>
    /\ results["r1"][1].domainAnalysis[1].cityOrAirport = "ARN"
    /\ invoked["r1"].addr = 1
    /\ call["r1"].ip = "203.0.1.9"
    /\ ~call["r1"].hit

\* the address of hop p was handed to getLocationFromIp at an earlier line of
\* the trace of request r
resolvedEarlier(r, p) ==
    \E j \in 1..(next[r] - 1) :
        \E q \in parsed[lines[r][j]] : needsAddress(q) /\ q.hop.ip = p.hop.ip

\* C15: while a hop of a trace is being resolved the loop stays at its line,
\* and it leaves the line only with the row of the hop's address written; a
\* hop whose address was resolved at an earlier line of the trace is answered
\* from the row, without a fetch and without a write.
C15_OneHopAtATime ==
    [][\A r \in Reqs :
          /\ pc[r] \in {"fetch", "text", "sleep"}
             => \/ next'[r] = next[r] /\ results'[r] = results[r]
                \/ /\ next'[r] = next[r] + 1
                   /\ pc'[r] = "parse"
                   /\ cur[r].ip \in DOMAIN ips'
          /\ \A p \in toResolve(r) :
                (stepOf(r) /\ resolvedEarlier(r, p))
                => /\ call'[r].hit
                   /\ call'[r].ip = p.hop.ip
                   /\ pc'[r] = "parse"
                   /\ fetched'[r] = 0
                   /\ invoked'[r].addr = invoked[r].addr + 1
                   /\ ips' = ips]_vars

\* the same address twice in one trace: fetched for the first hop, answered
\* from the row for the second
C15_Witness ==
    /\ lines["r1"] = <<PublicLine, PublicLine>>
    /\ next["r1"] = 3
    /\ invoked["r1"].addr = 2
    /\ call["r1"].hit
    /\ call["r1"].ret = <<SomeCoordinate, SomeCoordinate>>

\* the response of request r is resolved: parseOutput has returned to the
\* continuation of line 321, which resolves it (lines 323-325)
resolved(r) == pc[r] = "returned"

\* request r is inside the loop of parseOutput (lines 151-239), between two
\* awaits: its next line, or its return on line 242, can run
running(r) == pc[r] = "parse"

\* request r awaits a provider's response (line 90), a response body (line
\* 111) or the backoff timer (line 102), each of which eventually returns
awaiting(r) == pc[r] \in {"fetch", "text", "sleep"}

\* C16: no request is left pending forever: a request that has started and
\* has no response yet is either running or awaiting something that
\* returns, so that it goes on until its response is resolved.
C16_NoRequestPending ==
    \A r \in Reqs : pc[r] = "idle" \/ resolved(r) \/ running(r) \/ awaiting(r)

\* the answers on which tryWithRetry gives a provider up at once: a throw of
\* fetch or of text() (lines 121-124), a status that is neither 429 nor a
\* success (lines 106-109), a body that is not JSON (lines 113-118)
FailureKinds == {"throw", "text-throw", "http-error", "unparsable"}

\* request r receives one of these answers in this step
failsNow(r) ==
    /\ pc[r] \in {"fetch", "text"}
    /\ stepOf(r)
    /\ resp'[r].kind \in FailureKinds

nullish(v) == v \in {JSNull, JSUndefined, JSFalse, JSStr(""), JSNaN}

\* the answer of provider p is a structurally valid coordinate pair: a JSON
\* object with both of the provider's keys present and neither value nullish
\* (zero is a value)
yieldsPair(answer, p) ==
    /\ answer.kind = "json"
    /\ answer.body[1].t = "object"
    /\ \A i \in 1..2 :
          /\ keysOf(p)[i] \in DOMAIN answer.body[1].fields
          /\ ~nullish(answer.body[1].fields[keysOf(p)[i]])

\* the pair in the answer of provider p, as numbers
numbersOf(answer, p) ==
    <<ToNumber(answer.body[1].fields[keysOf(p)[1]]),
      ToNumber(answer.body[1].fields[keysOf(p)[2]])>>

\* what the table holds for a returned component (a NaN is stored as NULL)
storedAs(v) == IF IsNaN(v) THEN JSNull ELSE v

C19_CaseInsensitive ==
    (hState = "done" /\ hResult.tokenPassRan)
    => /\ hResult.analysis = tokenPass(toLowerCase(hDomain)).analysis
       /\ hResult.analysis = tokenPass(toUpperCase(hDomain)).analysis

\* line l has the shape '<index> <hostname> (<address>) <delay> ms'
hopShape(l) ==
    LET p == matchNonBlank(l)
    IN  /\ Len(p) = 5
        /\ allDigits(p[1])
        /\ Len(p[3]) > 2
        /\ SubSeq(p[3], 1, 1) = "("
        /\ SubSeq(p[3], Len(p[3]), Len(p[3])) = ")"
        /\ IsFinite(Number(p[4]))
        /\ p[5] = "ms"

\* C20: a line that does not have the shape of a hop line, whatever the
\* number of its tokens, adds no record and invokes neither resolver.
C20_NotHopShapeIgnored ==
    [][\A r \in Reqs :
          ( /\ atLine(r)
            /\ ~hopShape(line(r))
            /\ stepOf(r) )
          => /\ results' = results
             /\ invoked' = invoked]_vars

\* every location in the sequence of records seq comes from the address:
\* its label is "unknown" and its population 0
addressOnly(seq) ==
    \A k \in 1..Len(seq) :
        \A a \in {seq[k].domainAnalysis[i] : i \in 1..Len(seq[k].domainAnalysis)} :
            a.cityOrAirport = "unknown" /\ a.population = JSNum(0)

\* C21: with the heuristic switched off, the city pass and the token pass
\* never run, every hop (every line with 5 tokens) is handed to
\* getLocationFromIp, and every location in the records and in the output
\* has the label "unknown" and the population 0.
C21_AddressOnly ==
    /\ [](~heuristicFirst =>
            \A r \in Reqs : /\ invoked[r].heur = 0
                            /\ addressOnly(results[r])
                            /\ addressOnly(output[r]))
    /\ [][\A r \in Reqs :
             ( /\ ~heuristicFirst
               /\ atLine(r)
               /\ Len(matchNonBlank(line(r))) = 5
               /\ stepOf(r) )
             => /\ invoked'[r].addr = invoked[r].addr + 1
                /\ invoked'[r].heur = 0]_vars

\* with the heuristic off, a hop whose hostname has an airport guess is in
\* the output with the location of its address
C21_Witness ==
    /\ ~heuristicFirst
    /\ pc["r1"] = "returned"
    /\ lines["r1"] = <<PublicLine, AirportLine>>
    /\ invoked["r1"] = [heur |-> 0, addr |-> 2]
    /\ Len(output["r1"]) = 1
    /\ output["r1"][1].domain = "sto-b2.net"
    /\ output["r1"][1].domainAnalysis =
          <<Analysis("unknown", SomeCoordinate, SomeCoordinate, JSNum(0))>>

\* the lines of request r the loop has dealt with, those with 5 tokens
handled(r) == parseableLines(SubSeq(lines[r], 1, next[r] - 1))

\* the hop of line l goes to getLocationFromIp
byAddress(l) == ~heuristicFirst \/ ~guessExists(matchNonBlank(l)[2])

\* C22: the first hop is resolved and kept like every other hop until
\* parseOutput returns: every line dealt with has its record, the first
\* record is that of the first hop, and when that hop goes by its address
\* the table has a row for the address; nothing is put out before the loop
\* is over, and what is put out then is the records without the first.
C22_FirstHopResolved ==
    \A r \in Reqs :
        pc[r] # "idle"
        => /\ Len(results[r]) = Len(handled(r))
           /\ handled(r) # <<>> =>
                 /\ [results[r][1] EXCEPT !.domainAnalysis = <<>>]
                       = hopOf(handled(r)[1])
                 /\ byAddress(handled(r)[1]) =>
                       /\ hopOf(handled(r)[1]).ip \in DOMAIN ips
                       /\ invoked[r].addr >= 1
           /\ pc[r] # "returned" => output[r] = <<>>
           /\ pc[r] = "returned" =>
                 /\ next[r] > Len(lines[r])
                 /\ results[r] # <<>> => output[r] = Tail(results[r])

\* the only hop of the trace was located by a provider and has its row,
\* and the output is empty
C22_Witness ==
    /\ pc["r1"] = "returned"
    /\ lines["r1"] = <<PublicLine>>
    /\ output["r1"] = <<>>
    /\ invoked["r1"].addr = 1
    /\ "203.0.1.9" \in DOMAIN ips
    /\ ips["203.0.1.9"] = [lat |-> SomeCoordinate, lng |-> SomeCoordinate,
                            is_private |-> 0]
    /\ results["r1"][1].domainAnalysis =
          <<Analysis("unknown", SomeCoordinate, SomeCoordinate, JSNum(0))>>

\* the records of trace that have a location, after the origin
routePoints(trace) ==
    <<OriginServer>> \o SelectSeq(trace, LAMBDA h : h.domainAnalysis # <<>>)

\* the route of trace: a marker on every point, and between two markers the
\* polyline from the one point to the next
routeOf(trace) ==
    [i \in 1..(2 * Len(routePoints(trace)) - 1) |->
        IF i % 2 = 1
        THEN marker(routePoints(trace)[(i + 1) \div 2])
        ELSE polyline(routePoints(trace)[i \div 2], routePoints(trace)[i \div 2 + 1])]

\* C23: whichever of the two events comes first, once the map library has
\* loaded and the trace data has been received the map is initialised and
\* holds, after its tile layer, the route of the data exactly once; before
\* that it holds nothing of the route or all of it, never a part or a copy.
C23_RouteDrawnOnce ==
    /\ layers \in {<<>>, <<tileLayer>>, <<tileLayer>> \o routeOf(served)}
    /\ (script = "loaded" /\ request \in {"done", "failed"})
       => /\ map
          /\ traceData = <<served>>
          /\ layers = <<tileLayer>> \o routeOf(served)

\* the data came first and its drawing failed for want of a map; the map
\* library loaded afterwards and the route of two located hops is drawn
C23_Witness ==
    /\ script = "loaded"
    /\ request = "failed"
    /\ uncaught
    /\ Len(served) = 3
    /\ served[1].domainAnalysis = <<>>
    /\ served[2].domainAnalysis # <<>>
    /\ served[3].domainAnalysis # <<>>
    /\ Len(layers) = 6
    /\ layers[2] = marker(OriginServer)
    /\ layers[3] = polyline(OriginServer, served[2])
    /\ layers[6] = marker(served[3])

====
